---- MODULE Spec2Model ----
(***************************************************************************)
(* Model of ensembler/system/basic_system.py: the class `system`, which    *)
(* owns the live quantities of one particle, the current state snapshot,   *)
(* the trajectory and the list of coupled conditions.                      *)
(*                                                                         *)
(* Python values are encoded uniformly as records [kind, v]:               *)
(*   a number n            [kind |-> "number",   v |-> <<n>>]              *)
(*   a list/array          [kind |-> "iterable", v |-> <<n1, ..., nk>>]    *)
(*   a list of lists       [kind |-> "nested",   v |-> the flattened list] *)
(*   np.nan                [kind |-> "nan",      v |-> <<>>]               *)
(*   None                  [kind |-> "None",     v |-> <<>>]               *)
(*   the float 0.5                             kind "fraction"             *)
(*   an attribute that was never assigned      kind "unset"                *)
(*   the class attribute state.total_kinetic_energy (the namedtuple's      *)
(*   field descriptor, not a number)           kind "descriptor"           *)
(* Energies are integers: the masses of the model are even, so that        *)
(* 0.5 * mass * |v|^2 is integral.                                         *)
(***************************************************************************)
EXTENDS Integers, Sequences, FiniteSets, TLC

\* ------------------------------------------------------------------ bounds
\* simulate(steps = N) is called with 0 <= N <= MaxSteps
MaxSteps == 3
\* simulate(save_every_state = k) is called with 1 <= k <= MaxStride
MaxStride == 3
\* a call is only made when it leaves at most MaxTraj trajectory entries
MaxTraj == 2
\* the caller of the main specification makes at most MaxCalls calls on the
\* constructed system
MaxCalls == 2
\* a system is only constructed on a conditions list shorter than MaxList
MaxList == 3

\* ------------------------------------------------------------------ values
Num(n) == [kind |-> "number", v |-> <<n>>]
Vec(s) == [kind |-> "iterable", v |-> s]
Nested(s) == [kind |-> "nested", v |-> s]
NaN == [kind |-> "nan", v |-> <<>>]
None == [kind |-> "None", v |-> <<>>]
Unset == [kind |-> "unset", v |-> <<>>]
Descriptor == [kind |-> "descriptor", v |-> <<>>]
\* the float 0.5, a positive number that is no integer
Half == [kind |-> "fraction", v |-> <<1, 2>>]

\* isinstance(x, Number): np.nan is a float, hence a Number
IsNumber(x) == x.kind \in {"number", "nan"}
\* isinstance(x, Iterable)
IsIterable(x) == x.kind \in {"iterable", "nested"}
\* x > 0 for a number x
Positive(x) == x.kind = "fraction" \/ (x.kind = "number" /\ x.v[1] > 0)
\* np.isnan(x) for a scalar x
IsNaN(x) == x.kind = "nan"

RECURSIVE SumSq(_)
SumSq(s) == IF s = <<>> THEN 0 ELSE Head(s) * Head(s) + SumSq(Tail(s))

\* the coordinates and the velocity components that the random draws, the
\* sampler and the callers produce
Coords == {0, 1}
Vels == {0, 1}
\* the target temperatures and the masses the callers use
Temperatures == {298, 300}
Masses == {2, 4}

\* ------------------------------------------------------------ collaborators
\* The potentials a caller may pass: the class, the declared dimensionality
\* constants[nDimensions] and the declared state count (Unset when the
\* potential has no attribute nStates).
Potentials ==
    { [name |-> "harmonic", cls |-> "harmonicOscillatorPotential", nDimensions |-> Num(1), nStates |-> Num(1)],
      [name |-> "harmonicNoStates", cls |-> "harmonicOscillatorPotential", nDimensions |-> Num(1), nStates |-> Unset],
      [name |-> "bias", cls |-> "metadynamicsPotential1D", nDimensions |-> Num(1), nStates |-> Num(1)],
      [name |-> "twoState", cls |-> "harmonicOscillatorPotential", nDimensions |-> Num(1), nStates |-> Num(2)],
      [name |-> "harmonic2D", cls |-> "harmonicOscillatorPotential", nDimensions |-> Num(2), nStates |-> Num(1)],
      [name |-> "zeroDim", cls |-> "harmonicOscillatorPotential", nDimensions |-> Num(0), nStates |-> Num(1)],
      [name |-> "negativeDim", cls |-> "harmonicOscillatorPotential", nDimensions |-> Num(-1), nStates |-> Num(1)],
      [name |-> "halfDim", cls |-> "harmonicOscillatorPotential", nDimensions |-> Half, nStates |-> Num(1)] }

\* potential.ene(position) of the model potentials: the sum of the squared
\* coordinates; nan for an undefined position
ene(potential, position) ==
    IF position.kind \in {"number", "iterable"} THEN Num(SumSq(position.v)) ELSE NaN

\* potential.force(position) of the model potentials: twice each coordinate
force(potential, position) ==
    IF position.kind \in {"number", "iterable"}
    THEN [kind |-> position.kind, v |-> [i \in 1 .. Len(position.v) |-> 2 * position.v[i]]]
    ELSE NaN

\* The samplers a caller may pass: the class decides whether velocities are
\* seeded, dt is Unset when the sampler exposes no step size.
Samplers ==
    { [cls |-> "newtonianSampler", dt |-> Num(2)],
      [cls |-> "metropolisMonteCarloIntegrator", dt |-> Unset] }

\* The condition objects of the callers; "bias" is the metadynamics
\* potential object seen as a condition.
Conditions == {"restraint", "bias"}

\* number of occurrences of x in the sequence q
Count(q, x) == Cardinality({i \in 1 .. Len(q) : q[i] = x})

\* the sequences over S of length at most n in which nothing occurs twice
RECURSIVE DistinctSeqs(_, _)
DistinctSeqs(S, n) ==
    IF n = 0 THEN {<<>>}
    ELSE LET shorter == DistinctSeqs(S, n - 1)
         IN shorter \cup UNION {{Append(q, x) : x \in {y \in S : Count(q, y) = 0}} : q \in shorter}

\* ----------------------------------------------------------------- state
\* data.basicState: the namedtuple of one snapshot
State(position, temperature, totE, totPot, totKin, dhdpos, velocity) ==
    [position |-> position, temperature |-> temperature, total_system_energy |-> totE,
     total_potential_energy |-> totPot, total_kinetic_energy |-> totKin,
     dhdpos |-> dhdpos, velocity |-> velocity]

\* the snapshot holding the live quantities of self
LiveState(self) ==
    State(self._currentPosition, self._currentTemperature, self._currentTotE,
          self._currentTotPot, self._currentTotKin, self._currentForce,
          self._currentVelocities)

\* np.add of two energies: nan when either is undefined
Add(a, b) == IF a.kind = "number" /\ b.kind = "number" THEN Num(a.v[1] + b.v[1]) ELSE NaN

\* the exception `e` leaves the running call
Raise(self, e) == [self EXCEPT !.raised = e]
\* warnings.warn
Warn(self) == [self EXCEPT !.warned = @ + 1]
\* a new call starts on the object: nothing raised, nothing warned, no call
\* made yet
Call(self) == [self EXCEPT !.raised = "none", !.warned = 0, !.log = <<>>]
\* the loop of the running simulate makes the call `call` (on the condition
\* `on`), or appends to the trajectory
Log(self, call, on) == [self EXCEPT !.log = Append(@, <<call, on>>)]

\* ---------------------------------------------------------------- update
\* a slip: the rebuilt snapshot keeps the force of the snapshot it replaces
update_current_state_KeepsForce(self) ==
    [self EXCEPT !._currentState = [LiveState(self) EXCEPT !.dhdpos = self._currentState.dhdpos]]

update_current_state(self) == [self EXCEPT !._currentState = LiveState(self)]

_update_temperature(self) == [self EXCEPT !._currentTemperature = Num(self._temperature)]

calculate_total_kinetic_energy(self) ==
    LET vel == self._currentVelocities
    IN IF vel.kind \in {"number", "iterable"}
       THEN Num((self._mass \div 2) * SumSq(vel.v))
       ELSE NaN

calculate_total_potential_energy(self) == ene(self._potential, self._currentPosition)

_update_energies(self) ==
    LET totPot == calculate_total_potential_energy(self)
        totKin == calculate_total_kinetic_energy(self)
    IN [self EXCEPT !._currentTotPot = totPot,
                    !._currentTotKin = totKin,
                    !._currentTotE = IF IsNaN(totKin) THEN totPot ELSE Add(totKin, totPot)]

update_system_properties(self) == _update_temperature(_update_energies(self))

_update_current_vars_from_current_state(self) ==
    [self EXCEPT !._currentPosition = self._currentState.position,
                 !._currentTemperature = self._currentState.temperature,
                 !._currentTotE = self._currentState.total_system_energy,
                 !._currentTotPot = self._currentState.total_potential_energy,
                 !._currentTotKin = Descriptor,
                 !._currentForce = self._currentState.dhdpos,
                 !._currentVelocities = self._currentState.velocity]

clear_trajectory(self) == [self EXCEPT !._trajectory = <<>>]

\* --------------------------------------------------------- initialisation
\* the number of coordinates random_position draws
PositionDraws(self) == IF self.nDimensions.kind = "number" THEN self.nDimensions.v[1] ELSE 1

\* the number of velocities _init_velocities draws
VelocityDraws(self) ==
    PositionDraws(self) * (IF self.nStates.kind = "number" /\ self.nStates.v[1] > 1 THEN self.nStates.v[1] ELSE 1)

\* random_position: `draws` holds the outcome of np.random.rand(nDimensions)
random_position(self, draws) ==
    IF self.nDimensions.v[1] = 1 THEN Num(draws[1])
    ELSE Vec(SubSeq(draws, 1, self.nDimensions.v[1]))

\* a slip: the length of an explicit vector is not compared with nDimensions
_init_position_AnyLength(self, initial_position, draws) ==
    LET accepted ==
            IF initial_position.kind = "None" THEN random_position(self, draws)
            ELSE IF \/ IsNumber(initial_position) /\ self.nDimensions = Num(1)
                    \/ initial_position.kind = "iterable"
                 THEN initial_position
                 ELSE Unset
    IN IF initial_position.kind = "None" /\ self.nDimensions.kind # "number"
       THEN Raise(self, "TypeError")
       ELSE IF accepted.kind = "unset"
       THEN Raise(self, "Exception")
       ELSE update_current_state([self EXCEPT !.initial_position = accepted,
                                              !._currentPosition = accepted])

\* np.random.rand(n) takes an integer: a fractional nDimensions is a TypeError
_init_position(self, initial_position, draws) ==
    LET accepted ==
            IF initial_position.kind = "None" THEN random_position(self, draws)
            ELSE IF \/ IsNumber(initial_position) /\ self.nDimensions = Num(1)
                    \/ initial_position.kind = "iterable"
                          /\ self.nDimensions = Num(Len(initial_position.v))
                 THEN initial_position
                 ELSE Unset
    IN IF initial_position.kind = "None" /\ self.nDimensions.kind # "number"
       THEN Raise(self, "TypeError")
       ELSE IF accepted.kind = "unset"
       THEN Raise(self, "Exception")
       ELSE update_current_state([self EXCEPT !.initial_position = accepted,
                                              !._currentPosition = accepted])

\* _init_velocities: `draws` holds the moves of _gen_rand_vel, one per
\* degree of freedom; reading self.nStates fails when it was never assigned
_init_velocities(self, draws) ==
    IF self.nStates.kind = "unset" THEN Raise(self, "AttributeError")
    ELSE LET nDim == self.nDimensions.v[1]
             vel == IF self.nStates.v[1] > 1
                    THEN (IF nDim > 1 THEN Nested(SubSeq(draws, 1, nDim * self.nStates.v[1]))
                                      ELSE Vec(SubSeq(draws, 1, self.nStates.v[1])))
                    ELSE (IF nDim > 1 THEN Vec(SubSeq(draws, 1, nDim)) ELSE Num(draws[1]))
         IN update_current_state([self EXCEPT !._currentVelocities = vel])

\* a slip: the snapshot is appended before it is rebuilt
initialise_record_AppendsFirst(self) ==
    LET s5 == [self EXCEPT !._currentTemperature = Num(self._temperature), !.step = Num(0),
                           !._trajectory = Append(@, self._currentState)]
    IN update_current_state(update_system_properties(s5))

\* the end of initialise: the temperature, the step counter, the recompute
\* and the new trajectory entry
initialise_record(self) ==
    LET s5 == [self EXCEPT !._currentTemperature = Num(self._temperature), !.step = Num(0)]
        s6 == update_current_state(update_system_properties(s5))
    IN [s6 EXCEPT !._trajectory = Append(@, s6._currentState)]

initialise(self, withdraw_Traj, init_position, init_velocity, set_initial_position, pdraws, vdraws) ==
    LET s1 == IF withdraw_Traj THEN clear_trajectory(self) ELSE self
        s2 == IF init_position THEN _init_position(s1, set_initial_position, pdraws) ELSE s1
        s3 == IF s2.initial_position.kind = "unset" THEN Warn(s2)
              ELSE [s2 EXCEPT !._currentForce = force(s2._potential, s2.initial_position)]
        s4 == IF init_velocity THEN _init_velocities(s3, vdraws) ELSE s3
    IN IF s2.raised # "none" THEN s2
       ELSE IF s4.raised # "none" THEN s4
       ELSE initialise_record(s4)

\* ------------------------------------------------- properties and setters
\* the list objects; any other collection a caller passes ("T1", a tuple of
\* conditions) is no instance of List
ListIds == {"own", "L1"}

\* the setter of the property conditions
conditions_setter(self, conditions) ==
    IF conditions \in ListIds THEN [self EXCEPT !._conditions = conditions]
    ELSE Raise(self, "ValueError")

set_current_state(self, current_position, current_velocities, current_force, current_temperature) ==
    LET s1 == [self EXCEPT !._currentPosition = current_position,
                           !._currentForce = current_force,
                           !._currentVelocities = current_velocities,
                           !._currentTemperature = current_temperature]
        \* assigns the attribute currentState, which nothing reads; the
        \* property current_state reads _currentState
        s2 == [s1 EXCEPT !.currentState = State(current_position, current_temperature, NaN, NaN, NaN, NaN, NaN)]
    IN update_current_state(_update_energies(s2))

\* the setter of the property position
position_setter(self, position) ==
    LET s1 == [self EXCEPT !._currentPosition = position]
        s2 == IF Len(s1._trajectory) = 0 THEN [s1 EXCEPT !.initial_position = position] ELSE s1
    IN update_current_state(_update_energies(s2))

set_position(self, position) == position_setter(self, position)

\* the setter of the property velocity
velocity_setter(self, velocity) ==
    update_current_state(_update_energies([self EXCEPT !._currentVelocities = velocity]))

\* assigns the attribute velocities, which is no property of the class
set_velocities(self, velocities) == [self EXCEPT !.velocities = velocities]

\* the setter of the property temperature
temperature_setter(self, temperature) ==
    _update_energies([self EXCEPT !._temperature = temperature,
                                  !._currentTemperature = Num(temperature)])

set_temperature(self, temperature) == temperature_setter(self, temperature)

\* the setter of the property mass
mass_setter(self, mass) == [self EXCEPT !._mass = mass]

\* ---------------------------------------------------------- functionality
\* |a - b|
Dist(a, b) == IF a >= b THEN a - b ELSE b - a

\* the positions sampler.step may move the system to
Moves(self) ==
    IF self.nDimensions.v[1] = 1 THEN {Num(x) : x \in Coords}
    ELSE {Vec(q) : q \in [1 .. self.nDimensions.v[1] -> Coords]}

\* sampler.step(system), given the position `move` the sampler chose: the
\* velocity is the displacement per step when the sampler integrates
\* velocities and nan otherwise, the force is the potential's force at the
\* new position
sampler_step(self, move) ==
    LET old == self._currentPosition
        velocity ==
            IF self._integrator.cls = "metropolisMonteCarloIntegrator" THEN NaN
            ELSE [kind |-> move.kind,
                  v |-> [i \in 1 .. Len(move.v) |->
                            IF Len(old.v) = Len(move.v) THEN Dist(move.v[i], old.v[i]) ELSE 0]]
    IN <<move, velocity, force(self._potential, move)>>

\* a slip: the step also rebuilds the current snapshot
propagate_Snapshots(self, move) ==
    LET triple == sampler_step(self, move)
    IN update_current_state([self EXCEPT !._currentPosition = triple[1],
                                         !._currentVelocities = triple[2],
                                         !._currentForce = triple[3]])

\* the outcome of sampler.step when the sampler raises instead of returning
StepRaises == [kind |-> "raises", v |-> <<>>]

propagate(self, move) ==
    LET triple == sampler_step(self, move)
    IN IF move = StepRaises THEN Raise(self, "SamplerError")
       ELSE [self EXCEPT !._currentPosition = triple[1],
                         !._currentVelocities = triple[2],
                         !._currentForce = triple[3]]

\* what propagate returns: the live position, velocity and force
propagate_returns(self) == <<self._currentPosition, self._currentVelocities, self._currentForce>>

\* the box of the periodic restraint of the model
BoxSize == 1

\* condition.apply_coupled() through the condition's back-reference: the
\* restraint folds a scalar position into its box, the bias potential only
\* updates its own bias
\* the condition "wall" raises when it finds the particle at position 1
apply_coupled(self, condition) ==
    IF condition = "restraint" /\ self._currentPosition.kind = "number"
    THEN [self EXCEPT !._currentPosition = Num(self._currentPosition.v[1] % BoxSize)]
    ELSE IF condition = "wall" /\ self._currentPosition = Num(1)
    THEN Raise(self, "ConditionError")
    ELSE self

\* a slip: the conditions are applied from the end of the list
RECURSIVE apply_conditions_Reversed(_, _)
apply_conditions_Reversed(self, conditions) ==
    IF conditions = <<>> \/ self.raised # "none" THEN self
    ELSE LET last == conditions[Len(conditions)]
         IN apply_conditions_Reversed(apply_coupled(Log(self, "apply_coupled", last), last),
                                      SubSeq(conditions, 1, Len(conditions) - 1))

\* apply_conditions: `conditions` is the content of the list self._conditions;
\* an exception of a condition ends the loop
RECURSIVE apply_conditions(_, _)
apply_conditions(self, conditions) ==
    IF conditions = <<>> \/ self.raised # "none" THEN self
    ELSE apply_conditions(apply_coupled(Log(self, "apply_coupled", Head(conditions)),
                                        Head(conditions)),
                          Tail(conditions))

\* a slip: the energies are not recomputed for the new state
append_state_StaleEnergies(self, new_position, new_velocity, new_forces) ==
    LET s1 == [self EXCEPT !._currentPosition = new_position,
                           !._currentVelocities = new_velocity,
                           !._currentForce = new_forces]
        s2 == update_current_state(_update_temperature(s1))
    IN [s2 EXCEPT !._trajectory = Append(@, s2._currentState)]

append_state(self, new_position, new_velocity, new_forces) ==
    LET s1 == [self EXCEPT !._currentPosition = new_position,
                           !._currentVelocities = new_velocity,
                           !._currentForce = new_forces]
        s2 == update_current_state(_update_energies(_update_temperature(s1)))
    IN [s2 EXCEPT !._trajectory = Append(@, s2._currentState)]

\* a slip: the guard lets the only entry be removed, and reading the last
\* entry of the emptied trajectory fails
revert_step_PopsOnlyEntry(self) ==
    IF Len(self._trajectory) > 0
    THEN LET popped == SubSeq(self._trajectory, 1, Len(self._trajectory) - 1)
         IN IF popped = <<>> THEN Raise([self EXCEPT !._trajectory = popped], "IndexError")
            ELSE _update_current_vars_from_current_state(
                     [self EXCEPT !._trajectory = popped, !._currentState = popped[Len(popped)]])
    ELSE Warn(self)

revert_step(self) ==
    IF Len(self._trajectory) > 1
    THEN LET popped == SubSeq(self._trajectory, 1, Len(self._trajectory) - 1)
         IN _update_current_vars_from_current_state(
                [self EXCEPT !._trajectory = popped, !._currentState = popped[Len(popped)]])
    ELSE Warn(self)

\* a slip: the final index is retained inside the loop as well
retained_AlsoFinal(step, steps, save_every_state) == step % save_every_state = 0

\* the test of simulate's loop: the state of this step index is appended
retained(step, steps, save_every_state) ==
    step % save_every_state = 0 /\ step # steps - 1

\* a slip: the conditions are applied before the sampler's step
RECURSIVE SimulationLoop_ConditionsFirst(_, _, _, _, _, _)
SimulationLoop_ConditionsFirst(self, i, steps, save_every_state, moves, conditions) ==
    IF i >= steps THEN self
    ELSE LET s1 == apply_conditions([self EXCEPT !.step = Num(i)], conditions)
             s2 == propagate(Log(s1, "propagate", ""), moves[i + 1])
             s3 == update_current_state(Log(update_system_properties(
                                                Log(s2, "update_system_properties", "")),
                                            "update_current_state", ""))
             s4 == IF retained(i, steps, save_every_state)
                   THEN [Log(s3, "append", "") EXCEPT !._trajectory = Append(@, s3._currentState)]
                   ELSE s3
         IN IF s1.raised # "none" THEN s1
            ELSE IF s2.raised # "none" THEN s2
            ELSE SimulationLoop_ConditionsFirst(s4, i + 1, steps, save_every_state, moves, conditions)

\* the body of simulate's loop from step index i on; moves[i + 1] is the
\* position the sampler chooses at index i
RECURSIVE SimulationLoop(_, _, _, _, _, _)
SimulationLoop(self, i, steps, save_every_state, moves, conditions) ==
    IF i >= steps THEN self
    ELSE LET s1 == propagate(Log([self EXCEPT !.step = Num(i)], "propagate", ""), moves[i + 1])
             s2 == apply_conditions(s1, conditions)
             s3 == update_current_state(Log(update_system_properties(
                                                Log(s2, "update_system_properties", "")),
                                            "update_current_state", ""))
             s4 == IF retained(i, steps, save_every_state)
                   THEN [Log(s3, "append", "") EXCEPT !._trajectory = Append(@, s3._currentState)]
                   ELSE s3
         IN IF s1.raised # "none" THEN s1
            ELSE IF s2.raised # "none" THEN s2
            ELSE SimulationLoop(s4, i + 1, steps, save_every_state, moves, conditions)

\* a slip: the final entry is appended although the loop was left by an
\* exception
simulate_AppendsAfterFailure(self, steps, withdraw_traj, save_every_state, init_system, moves, conditions, pdraws, vdraws) ==
    LET s1 == IF init_system THEN _init_position(self, None, pdraws) ELSE self
        s2 == IF init_system THEN _init_velocities(s1, vdraws) ELSE s1
        s3 == IF withdraw_traj THEN [s2 EXCEPT !._trajectory = <<s2._currentState>>] ELSE s2
        s4 == update_system_properties(update_current_state(s3))
        s5 == SimulationLoop(s4, 0, steps, save_every_state, moves, conditions)
    IN IF s2.raised # "none" THEN s2
       ELSE [Log(s5, "append", "") EXCEPT !._trajectory = Append(@, s5._currentState)]

simulate(self, steps, withdraw_traj, save_every_state, init_system, moves, conditions, pdraws, vdraws) ==
    LET s1 == IF init_system THEN _init_position(self, None, pdraws) ELSE self
        s2 == IF init_system THEN _init_velocities(s1, vdraws) ELSE s1
        s3 == IF withdraw_traj THEN [s2 EXCEPT !._trajectory = <<s2._currentState>>] ELSE s2
        s4 == update_system_properties(update_current_state(s3))
        s5 == SimulationLoop(s4, 0, steps, save_every_state, moves, conditions)
    IN IF s2.raised # "none" THEN s2
       ELSE IF s5.raised # "none" THEN s5
       ELSE [Log(s5, "append", "") EXCEPT !._trajectory = Append(@, s5._currentState)]

\* ------------------------------------------------------------ construction
\* condition.couple_system(system): the condition keeps the back-reference;
\* coupling again replaces it
couple_system(conds, condition) == [conds EXCEPT ![condition].system = TRUE]

\* the loop of __init__ over self._conditions, in list order
RECURSIVE WireConditions(_, _, _)
WireConditions(conds, conditions, sampler) ==
    IF conditions = <<>> THEN conds
    ELSE LET c == Head(conditions)
             coupled == couple_system(conds, c)
             dt == IF coupled[c].dt.kind = "unset" /\ sampler.dt.kind # "unset"
                   THEN sampler.dt ELSE Num(1)
         IN WireConditions([coupled EXCEPT ![c].dt = dt], Tail(conditions), sampler)

\* "set dim" of __init__: the dimensionality the potential declares
set_dim(self, potential) ==
    IF Positive(potential.nDimensions)
    THEN [self EXCEPT !.nDimensions = potential.nDimensions]
    ELSE Raise(self, "IOError")

\* system.__init__: `conditions` is "None" or the name of the caller's list
\* object, `lists` and `conds` are the caller's list and condition objects.
\* The result holds the object and the caller's objects as the constructor
\* leaves them; self.raised tells whether the constructor raised.
__init__(potential, sampler, conditions, temperature, start_position, mass, lists, conds, pdraws, vdraws) ==
    LET undefined == State(NaN, NaN, NaN, NaN, NaN, NaN, NaN)
        listId == IF conditions = "None" THEN "own" ELSE conditions
        lists1 == IF conditions = "None" THEN [lists EXCEPT !["own"] = <<>>] ELSE lists
        s0 == [nParticles |-> 1, _mass |-> mass, _temperature |-> temperature,
               _currentState |-> undefined, _trajectory |-> <<>>,
               _currentTotE |-> NaN, _currentTotPot |-> NaN, _currentTotKin |-> NaN,
               _currentPosition |-> NaN, _currentVelocities |-> NaN,
               _currentForce |-> NaN, _currentTemperature |-> NaN,
               _potential |-> potential, _integrator |-> sampler, _conditions |-> listId,
               nDimensions |-> Unset, nStates |-> Unset, nstates |-> Unset,
               initial_position |-> Unset, step |-> Unset,
               currentState |-> State(Unset, Unset, Unset, Unset, Unset, Unset, Unset),
               velocities |-> Unset, raised |-> "none", warned |-> 0, log |-> <<>>]
        s1 == set_dim(s0, potential)
        s2 == IF potential.nStates.kind # "unset"
              THEN [s1 EXCEPT !.nStates = potential.nStates]
              ELSE [s1 EXCEPT !.nstates = Num(1)]
        init_velocity == sampler.cls \in {"newtonianSampler", "langevinIntegrator"}
        s3 == initialise(s2, TRUE, TRUE, init_velocity, start_position, pdraws, vdraws)
        lists2 == IF potential.cls \in {"metadynamicsPotential1D", "metadynamicsPotential2D"}
                  THEN [lists1 EXCEPT ![listId] = Append(@, potential.name)]
                  ELSE lists1
    IN IF s1.raised # "none" THEN [self |-> s1, lists |-> lists1, conds |-> conds]
       ELSE IF s3.raised # "none" THEN [self |-> s3, lists |-> lists1, conds |-> conds]
       \* a tuple has no method append
       ELSE IF lists2 # lists1 /\ listId \notin ListIds
       THEN [self |-> Raise(s3, "AttributeError"), lists |-> lists1, conds |-> conds]
       ELSE [self |-> s3, lists |-> lists2,
             conds |-> WireConditions(conds, lists2[listId], sampler)]

\* =================================================================== model
\* self:        the system object (its attributes; raised and warned are the
\*              outcome of the last call on it)
\* lists:       the list objects: "L1" is the caller's, "own" the list the
\*              constructor creates when no conditions are passed
\* conds:       the condition objects' attributes
\* constructed: the last construction returned an object
\* lastOp:      the last call: its name, the steps and stride of simulate,
\*              its flags, the trajectory length when it was called, and
\*              the values it was called with (what the sampler returned,
\*              for propagate)
\* calls:       the number of calls made on the constructed system
VARIABLES self, lists, conds, constructed, lastOp, calls

vars == <<self, lists, conds, constructed, lastOp, calls>>

Op(name, steps, stride, flags, lenBefore) ==
    [name |-> name, steps |-> steps, stride |-> stride, flags |-> flags, lenBefore |-> lenBefore,
     args |-> <<>>]

\* the call `op` was made with the values `args`
With(op, args) == [op EXCEPT !.args = args]

\* the values of the system's shape with coordinates in S
Shaped(s, S) ==
    IF s.nDimensions.v[1] = 1 THEN {Num(x) : x \in S}
    ELSE {Vec(q) : q \in [1 .. s.nDimensions.v[1] -> S]}

\* the explicit starting positions a caller may pass
StartPositions == {None, Num(1), Vec(<<0, 1>>)}

\* the moves of the random draws of one call
PDraws(s) == [1 .. PositionDraws(s) -> Coords]
VDraws(s) == [1 .. VelocityDraws(s) -> Vels]

\* the condition objects before any construction
NoConditionCoupled == [c \in Conditions |-> [system |-> FALSE, dt |-> Unset]]

\* The constructions of the main specification: the one-dimensional
\* harmonic potential at the explicit starting position 0, with the
\* velocity sampler and no conditions or with the Monte Carlo sampler and
\* the caller's list holding the restraint.
MainConstructions ==
    {<<"newtonianSampler", "None">>, <<"metropolisMonteCarloIntegrator", "L1">>}

Init ==
    /\ lists = [own |-> <<>>, L1 |-> <<"restraint">>]
    /\ \E potential \in {p \in Potentials : p.name = "harmonic"}, sampler \in Samplers,
          conditions \in {"None", "L1"}, vd \in [1 .. 1 -> Vels] :
          LET r == __init__(potential, sampler, conditions, 298, Num(0), 2, lists,
                            NoConditionCoupled, <<0>>, vd)
          IN /\ <<sampler.cls, conditions>> \in MainConstructions
             /\ r.self.raised = "none"
             /\ self = r.self
             /\ conds = r.conds
             /\ r.lists = lists
    /\ constructed = TRUE
    /\ lastOp = Op("__init__", 0, 0, <<TRUE, TRUE, FALSE>>, 0)
    /\ calls = 0

Frame == UNCHANGED <<lists, conds, constructed>>

\* one more call of the caller's budget
Tick == calls < MaxCalls /\ calls' = calls + 1

\* initialise(...) with set_initial_position among `positions`
InitialiseWith(positions) ==
    /\ constructed
    /\ \E withdraw_Traj \in BOOLEAN, init_position \in BOOLEAN, init_velocity \in BOOLEAN :
          \E set_initial_position \in (IF init_position THEN positions ELSE {None}) :
          \E pd \in (IF init_position /\ set_initial_position = None THEN PDraws(self) ELSE {<<0>>}),
             vd \in (IF init_velocity THEN VDraws(self) ELSE {<<0>>}) :
          /\ withdraw_Traj \/ Len(self._trajectory) < MaxTraj
          /\ self' = initialise(Call(self), withdraw_Traj, init_position, init_velocity,
                                set_initial_position, pd, vd)
          /\ lastOp' = With(Op("initialise", 0, 0, <<withdraw_Traj, init_position, init_velocity>>,
                               Len(self._trajectory)),
                            <<set_initial_position>>)
    /\ Frame

Initialise == InitialiseWith(StartPositions)

\* simulate(steps, withdraw_traj, save_every_state, init_system), for every
\* outcome of the random draws and every choice of the sampler
SimulateCall(steps, withdraw_traj, save_every_state, init_system) ==
    /\ constructed
    /\ \E pd \in (IF init_system THEN PDraws(self) ELSE {<<0>>}),
          vd \in (IF init_system THEN VDraws(self) ELSE {<<0>>}) :
          \E moves \in [1 .. steps -> Moves(self)] :
             /\ self' = simulate(Call(self), steps, withdraw_traj, save_every_state,
                                 init_system, moves, lists[self._conditions], pd, vd)
             /\ lastOp' = Op("simulate", steps, save_every_state,
                             <<withdraw_traj, init_system, FALSE>>, Len(self._trajectory))
    /\ Frame

\* simulate with the default stride, called when no more than MaxTraj
\* entries can result
Simulate ==
    \E steps \in 0 .. MaxSteps, withdraw_traj \in BOOLEAN, init_system \in BOOLEAN :
       /\ (IF withdraw_traj THEN 1 ELSE Len(self._trajectory))
             + (IF steps = 0 THEN 1 ELSE steps) <= MaxTraj
       /\ SimulateCall(steps, withdraw_traj, 1, init_system)

Propagate ==
    /\ constructed
    /\ \E move \in Moves(self) :
          /\ self' = propagate(Call(self), move)
          /\ lastOp' = With(Op("propagate", 0, 0, <<FALSE, FALSE, FALSE>>, Len(self._trajectory)),
                            sampler_step(self, move))
    /\ Frame

AppendState ==
    /\ constructed
    /\ Len(self._trajectory) < MaxTraj
    /\ \E p \in Shaped(self, Coords), v \in Shaped(self, {1}) \cup {NaN}, f \in Shaped(self, {0}) :
          /\ self' = append_state(Call(self), p, v, f)
          /\ lastOp' = With(Op("append_state", 0, 0, <<FALSE, FALSE, FALSE>>, Len(self._trajectory)),
                            <<p, v, f>>)
    /\ Frame

RevertStep ==
    /\ constructed
    /\ self' = revert_step(Call(self))
    /\ lastOp' = Op("revert_step", 0, 0, <<FALSE, FALSE, FALSE>>, Len(self._trajectory))
    /\ Frame

ClearTrajectory ==
    /\ constructed
    /\ self' = clear_trajectory(Call(self))
    /\ lastOp' = Op("clear_trajectory", 0, 0, <<FALSE, FALSE, FALSE>>, Len(self._trajectory))
    /\ Frame

SetCurrentState ==
    /\ constructed
    /\ \E p \in Shaped(self, Coords), v \in Shaped(self, {1}) \cup {NaN} :
          self' = set_current_state(Call(self), p, v, Num(0), Num(298))
    /\ lastOp' = Op("set_current_state", 0, 0, <<FALSE, FALSE, FALSE>>, Len(self._trajectory))
    /\ Frame

SetPosition ==
    /\ constructed
    /\ \E p \in Shaped(self, Coords) :
          /\ self' = set_position(Call(self), p)
          /\ lastOp' = With(Op("set_position", 0, 0, <<FALSE, FALSE, FALSE>>, Len(self._trajectory)),
                            <<p>>)
    /\ Frame

SetVelocity ==
    /\ constructed
    /\ \E v \in Shaped(self, Vels) \cup {NaN} : self' = velocity_setter(Call(self), v)
    /\ lastOp' = Op("velocity", 0, 0, <<FALSE, FALSE, FALSE>>, Len(self._trajectory))
    /\ Frame

SetVelocities ==
    /\ constructed
    /\ \E v \in Shaped(self, Vels) :
          /\ self' = set_velocities(Call(self), v)
          /\ lastOp' = With(Op("set_velocities", 0, 0, <<FALSE, FALSE, FALSE>>, Len(self._trajectory)),
                            <<v>>)
    /\ Frame

SetTemperature ==
    /\ constructed
    /\ \E t \in Temperatures :
          /\ self' = set_temperature(Call(self), t)
          /\ lastOp' = With(Op("set_temperature", 0, 0, <<FALSE, FALSE, FALSE>>, Len(self._trajectory)),
                            <<t>>)
    /\ Frame

SetMass ==
    /\ constructed
    /\ \E m \in Masses : self' = mass_setter(Call(self), m)
    /\ lastOp' = Op("mass", 0, 0, <<FALSE, FALSE, FALSE>>, Len(self._trajectory))
    /\ Frame

\* the caller assigns system.conditions: the list L1 or the tuple T1
SetConditions ==
    /\ constructed
    /\ \E conditions \in {"L1", "T1"} :
          /\ self' = conditions_setter(Call(self), conditions)
          /\ lastOp' = With(Op("conditions", 0, 0, <<FALSE, FALSE, FALSE>>, Len(self._trajectory)),
                            <<conditions>>)
    /\ Frame

Next ==
    \/ Tick /\ Initialise
    \/ Tick /\ Simulate
    \/ Tick /\ Propagate
    \/ Tick /\ AppendState
    \/ Tick /\ RevertStep
    \/ Tick /\ ClearTrajectory
    \/ Tick /\ SetCurrentState
    \/ Tick /\ SetPosition
    \/ Tick /\ SetVelocity
    \/ Tick /\ SetVelocities
    \/ Tick /\ SetTemperature
    \/ Tick /\ SetMass
    \/ Tick /\ SetConditions

Spec == Init /\ [][Next]_vars

\* ------------------------------------------------- the simulation loop
\* simulate with every step count and stride, called on a trajectory of at
\* most one entry
SimulateStrided ==
    \E steps \in 0 .. MaxSteps, save_every_state \in 1 .. MaxStride,
       withdraw_traj \in BOOLEAN, init_system \in BOOLEAN :
       /\ Len(self._trajectory) <= 1
       /\ SimulateCall(steps, withdraw_traj, save_every_state, init_system)

\* A caller that simulates, rolls back and injects states: any number of
\* calls, each simulation starting from a trajectory of at most one entry.
NextSimulate ==
    \/ SimulateStrided /\ UNCHANGED calls
    \/ RevertStep /\ UNCHANGED calls
    \/ Len(self._trajectory) <= 1 /\ AppendState /\ UNCHANGED calls

SpecSimulate == Init /\ [][NextSimulate]_vars

\* ------------------------------------------------------------ construction
\* the lists and the conditions a caller holds before its first construction
CallerLists == {[own |-> <<>>, L1 |-> q, T1 |-> <<"restraint">>] : q \in DistinctSeqs(Conditions, 2)}
CallerConditions ==
    {[c \in Conditions |-> [system |-> FALSE, dt |-> IF c = "restraint" THEN d ELSE Unset]] :
        d \in {Unset, Num(5)}}

\* system(potential, sampler, conditions, start_position = ...) on the
\* caller's objects `ls` and `cs`; the random draws come out as 0 for every
\* coordinate and 1 for every velocity
Constructed(ls, cs) ==
    \E potential \in Potentials, sampler \in Samplers, conditions \in {"None", "L1", "T1"} :
       LET r == __init__(potential, sampler, conditions, 298, None, 2, ls, cs,
                         <<0, 0>>, <<1, 1, 1, 1>>)
       IN /\ self' = r.self
          /\ lists' = r.lists
          /\ conds' = r.conds
          /\ constructed' = (r.self.raised = "none")
          /\ lastOp' = Op("__init__", 0, 0, <<TRUE, TRUE, FALSE>>, Len(ls[r.self._conditions]))
          /\ calls' = 0

\* a caller constructs a system, possibly passing a list and conditions that
\* an earlier construction has seen
Construct ==
    /\ Len(lists["L1"]) < MaxList
    /\ Constructed(lists, conds)

\* the state after a first construction
InitWiring ==
    \E ls \in CallerLists, cs \in CallerConditions,
       potential \in Potentials, sampler \in Samplers, conditions \in {"None", "L1", "T1"} :
       LET r == __init__(potential, sampler, conditions, 298, None, 2, ls, cs, <<0, 0>>, <<1, 1, 1, 1>>)
       IN /\ self = r.self
          /\ lists = r.lists
          /\ conds = r.conds
          /\ constructed = (r.self.raised = "none")
          /\ lastOp = Op("__init__", 0, 0, <<TRUE, TRUE, FALSE>>, Len(ls[r.self._conditions]))
          /\ calls = 0

NextWiring == Construct

SpecWiring == InitWiring /\ [][NextWiring]_vars

\* ------------------------------------ the specification of simulate's steps
\* The conditions of this specification: the restraint, the bias potential
\* and a wall, which raises when the particle reaches position 1.
StepConditions == Conditions \cup {"wall"}

\* The systems: the harmonic potential under each of four caller's lists,
\* and the bias potential constructed on a list that already holds it.
StepConstructions ==
    {<<"harmonic", <<"restraint">>>>, <<"harmonic", <<"wall">>>>,
     <<"harmonic", <<"wall", "restraint">>>>, <<"harmonic", <<"restraint", "wall">>>>,
     <<"bias", <<"bias">>>>}

InitSteps ==
    \E c \in StepConstructions, potential \in Potentials, sampler \in Samplers :
       LET r == __init__(potential, sampler, "L1", 298, Num(0), 2,
                         [own |-> <<>>, L1 |-> c[2]],
                         [x \in StepConditions |-> [system |-> FALSE, dt |-> Unset]],
                         <<0>>, <<1>>)
       IN /\ potential.name = c[1]
          /\ self = r.self
          /\ lists = r.lists
          /\ conds = r.conds
          /\ constructed = (r.self.raised = "none")
          /\ lastOp = Op("__init__", 0, 0, <<TRUE, TRUE, FALSE>>, 0)
          /\ calls = 0

\* simulate(steps, withdraw_traj, save_every_state) where the sampler may
\* raise at any step; one call of simulate is made on each system
SimulateSteps ==
    /\ constructed
    /\ calls = 0
    /\ calls' = 1
    /\ \E steps \in 0 .. MaxSteps, save_every_state \in 1 .. MaxStride, withdraw_traj \in BOOLEAN :
          \E moves \in [1 .. steps -> Moves(self) \cup {StepRaises}] :
             /\ self' = simulate(Call(self), steps, withdraw_traj, save_every_state, FALSE,
                                 moves, lists[self._conditions], <<0>>, <<0>>)
             /\ lastOp' = Op("simulate", steps, save_every_state,
                             <<withdraw_traj, FALSE, FALSE>>, Len(self._trajectory))
    /\ Frame

\* before it simulates, the caller may append one state
NextSteps ==
    \/ SimulateSteps
    \/ calls = 0 /\ Len(self._trajectory) <= 1 /\ AppendState /\ UNCHANGED calls

SpecSteps == InitSteps /\ [][NextSteps]_vars

\* ---------------------------------------- the specification of initialise
\* The caller re-initialises systems of one and of two dimensions, with and
\* without a declared state count, at explicit positions of every shape.
ExplicitPositions == {Num(1), Vec(<<1>>), Vec(<<0, 1>>), Vec(<<0, 1, 0>>)}

InitInitialise ==
    /\ lists = [own |-> <<>>, L1 |-> <<>>]
    /\ \E potential \in {p \in Potentials : p.name \in {"harmonic", "harmonic2D", "harmonicNoStates"}},
          sampler \in Samplers :
          LET r == __init__(potential, sampler, "None", 298, None, 2, lists, NoConditionCoupled,
                            <<0, 0>>, <<1, 1, 1, 1>>)
          IN /\ self = r.self
             /\ conds = r.conds
             /\ constructed = (r.self.raised = "none")
    /\ lastOp = Op("__init__", 0, 0, <<TRUE, TRUE, FALSE>>, 0)
    /\ calls = 0

NextInitialise == Tick /\ InitialiseWith(ExplicitPositions)

SpecInitialise == InitInitialise /\ [][NextInitialise]_vars

\* ------------------------------------------ the specification of rollback
\* A caller that injects states, rolls back and clears the trajectory: any
\* number of calls, the trajectory never longer than MaxTraj.
NextRollback ==
    \/ AppendState /\ UNCHANGED calls
    \/ RevertStep /\ UNCHANGED calls
    \/ ClearTrajectory /\ UNCHANGED calls

SpecRollback == Init /\ [][NextRollback]_vars

\* ------------------------------------------------------------- properties
Last(q) == q[Len(q)]

\* ceil(a / b) for a >= 0, b > 0
CeilDiv(a, b) == (a + b - 1) \div b

\* the length of the trajectory simulate starts to append to
Base == IF lastOp.flags[1] THEN 1 ELSE lastOp.lenBefore

\* the last call returned without raising
Returned(name) == lastOp.name = name /\ self.raised = "none"

EnergyRule(state) ==
    /\ state.total_kinetic_energy.kind \in {"nan", "number"}
    /\ state.total_system_energy =
          IF IsNaN(state.total_kinetic_energy) THEN state.total_potential_energy
          ELSE Add(state.total_kinetic_energy, state.total_potential_energy)

\* C2 as stated: every snapshot stored in the trajectory satisfies the energy
\* rule, with a kinetic energy that is either undefined or a real number.
C2_SnapshotEnergies ==
    \A i \in 1 .. Len(self._trajectory) : EnergyRule(self._trajectory[i])

\* the public mutators of a physical quantity
Mutators ==
    {"set_position", "velocity", "set_temperature", "mass", "set_current_state",
     "append_state", "initialise"}

\* C3 as stated: after a public mutator of a physical quantity returns, the
\* current snapshot equals the live quantities and the live energies are the
\* ones recomputed from the live position, velocity and mass.
C3_MutatorsRecompute ==
    (lastOp.name \in Mutators /\ self.raised = "none")
    => (/\ self._currentState = LiveState(self)
        /\ self._currentTotPot = calculate_total_potential_energy(self)
        /\ self._currentTotKin = calculate_total_kinetic_energy(self))

\* C4: after a successful construction and after every later successful
\* initialise, whatever its flags, the trajectory has at least one entry and
\* its last entry equals the live quantities.
C4_InitialiseRecords ==
    (Returned("__init__") \/ Returned("initialise"))
    => (Len(self._trajectory) >= 1 /\ Last(self._trajectory) = LiveState(self))

C4_Witness ==
    /\ Returned("initialise") /\ lastOp.flags = <<FALSE, TRUE, FALSE>>
    /\ Len(self._trajectory) = 2
    /\ self._trajectory[1].position # self._trajectory[2].position

\* C5 as stated: simulate(steps = N, save_every_state = 1) on a trajectory
\* of length 1 leaves a trajectory of length N + 1, for every N >= 0.
C5_SimulateLength ==
    (Returned("simulate") /\ lastOp.stride = 1 /\ lastOp.lenBefore = 1)
    => Len(self._trajectory) = lastOp.steps + 1

\* C6 as stated: simulate(steps = N, save_every_state = k) with N >= 1 and
\* k > 1 appends ceil(N / k) entries inside the loop and one final entry.
C6_StrideCeilN ==
    (Returned("simulate") /\ lastOp.steps >= 1 /\ lastOp.stride > 1)
    => Len(self._trajectory) = Base + CeilDiv(lastOp.steps, lastOp.stride) + 1

\* C6 amended: simulate(steps = N, save_every_state = k) with N >= 1 and
\* k > 1 appends ceil((N - 1) / k) entries inside the loop, one for every
\* step index i < N - 1 that is a multiple of k, and one final entry.
C6_StrideCeilNMinusOne ==
    (Returned("simulate") /\ lastOp.steps >= 1 /\ lastOp.stride > 1)
    => Len(self._trajectory) = Base + CeilDiv(lastOp.steps - 1, lastOp.stride) + 1

C6_Witness ==
    /\ Returned("simulate") /\ lastOp.steps = 3 /\ lastOp.stride = 2
    /\ ~lastOp.flags[1] /\ lastOp.lenBefore = 1
    /\ Len(self._trajectory) = 3

\* C7 as stated: revert_step on a trajectory of more than one entry removes
\* exactly the last entry and leaves every live quantity, the kinetic energy
\* included, equal to the field of the new last entry.
C7_RevertRestores ==
    [][(lastOp'.name = "revert_step" /\ Len(self._trajectory) > 1)
       => (/\ self'._trajectory = SubSeq(self._trajectory, 1, Len(self._trajectory) - 1)
           /\ LiveState(self') = Last(self'._trajectory))]_vars

\* C8: revert_step on a trajectory of fewer than two entries does not raise,
\* warns, and leaves the trajectory, the current snapshot and every live
\* quantity unchanged.
C8_ShortRevertWarns ==
    [][(lastOp'.name = "revert_step" /\ Len(self._trajectory) < 2)
       => (/\ self'.raised = "none" /\ self'.warned = 1
           /\ self'._trajectory = self._trajectory
           /\ self'._currentState = self._currentState
           /\ LiveState(self') = LiveState(self))]_vars

C8_Witness ==
    /\ lastOp.name = "revert_step" /\ lastOp.lenBefore = 0
    /\ self._trajectory = <<>> /\ self.warned = 1 /\ self.raised = "none"

\* C9 as stated: after the constructor's wiring a bias-type potential is in
\* the condition list and no condition occurs in the list more than once.
C9_WiredOnce ==
    (lastOp.name = "__init__" /\ constructed)
    => LET list == lists[self._conditions]
       IN /\ (self._potential.cls = "metadynamicsPotential1D")
             => Count(list, self._potential.name) >= 1
          /\ \A c \in Conditions : Count(list, c) <= 1

\* C10 as stated: a construction with a potential whose declared
\* dimensionality is not a positive integer fails with the configuration
\* error before initialise runs: no position is seeded, no entry is created.
C10_DimensionRejected ==
    (lastOp.name = "__init__" /\ ~(self._potential.nDimensions.kind = "number"
                                     /\ self._potential.nDimensions.v[1] > 0))
    => (/\ ~constructed /\ self.raised = "IOError"
        /\ self._currentPosition = NaN /\ self.initial_position = Unset
        /\ self._trajectory = <<>> /\ self.step = Unset)

\* C19: propagate overwrites the live position, velocity and force with the
\* triple the sampler returned and returns that triple; the trajectory, the
\* live energies and temperature, the current snapshot, the step counter and
\* every other attribute stay as they were.
C19_PropagateFrame ==
    [][(lastOp'.name = "propagate")
       => (/\ propagate_returns(self') = lastOp'.args
           /\ self' = [Call(self) EXCEPT !._currentPosition = lastOp'.args[1],
                                         !._currentVelocities = lastOp'.args[2],
                                         !._currentForce = lastOp'.args[3]])]_vars

C19_Witness ==
    /\ lastOp.name = "propagate"
    /\ self._currentPosition # self._currentState.position
    /\ self._currentVelocities # self._currentState.velocity
    /\ self._currentForce # self._currentState.dhdpos
    /\ Len(self._trajectory) = 1

\* C20: append_state(p, v, f) lengthens the trajectory by exactly one entry
\* and leaves the earlier entries unchanged; the new last entry has the
\* position p, the velocity v, the force f, the configured target
\* temperature and the energies recomputed from p and v, and it equals the
\* live quantities.
C20_AppendStateRecords ==
    [][(lastOp'.name = "append_state")
       => LET p == lastOp'.args[1]
              v == lastOp'.args[2]
              f == lastOp'.args[3]
              new == Last(self'._trajectory)
              pot == ene(self._potential, p)
              kin == IF v.kind \in {"number", "iterable"}
                     THEN Num((self._mass \div 2) * SumSq(v.v)) ELSE NaN
          IN /\ self'._trajectory = Append(self._trajectory, new)
             /\ new = State(p, Num(self._temperature),
                            IF IsNaN(kin) THEN pot ELSE Add(kin, pot), pot, kin, f, v)
             /\ new = LiveState(self')]_vars

C20_Witness ==
    /\ lastOp.name = "append_state" /\ lastOp.lenBefore = 1 /\ Len(self._trajectory) = 2
    /\ self._trajectory[2].total_kinetic_energy = Num(1)
    /\ self._trajectory[2].position = Num(1)

\* C14 as stated: after construction nStates is the state count the
\* potential declares, and 1 when it declares none; velocity seeding, which
\* reads nStates, does not fail for a potential without a state count.
C14_StateCountDefault ==
    (lastOp.name = "__init__")
    => (/\ self.raised # "AttributeError"
        /\ constructed
           => self.nStates = (IF self._potential.nStates.kind = "unset" THEN Num(1)
                              ELSE self._potential.nStates))

\* C15 as stated: after construction every condition of the condition list
\* has the sampler's dt when the sampler exposes one and dt = 1 otherwise,
\* whether or not the condition carried a dt before.
C15_ConditionStepSize ==
    (lastOp.name = "__init__" /\ constructed)
    => \A i \in 1 .. Len(lists[self._conditions]) :
          conds[lists[self._conditions][i]].dt =
             (IF self._integrator.dt.kind = "unset" THEN Num(1) ELSE self._integrator.dt)

\* C12 as stated: a conditions argument that is no list is rejected with the
\* condition-type error by the call that receives it, in the constructor and
\* in the setter, and a system never holds a non-list as its condition list.
C12_ConditionsAreLists ==
    /\ constructed => self._conditions \in ListIds
    /\ (lastOp.name = "__init__" /\ self._conditions \notin ListIds) => self.raised = "ValueError"
    /\ (lastOp.name = "conditions" /\ lastOp.args[1] \notin ListIds) => self.raised = "ValueError"

\* the shape of the explicit position p is the one nDimensions = n asks for
ShapeMatches(p, n) ==
    \/ IsNumber(p) /\ n = Num(1)
    \/ p.kind = "iterable" /\ n = Num(Len(p.v))

\* C11: initialise with an explicit starting position of the wrong shape (a
\* scalar for more than one dimension, a vector whose length is not
\* nDimensions) raises the shape-mismatch error; a position of the right
\* shape becomes the initial-position marker and the live position.
C11_ShapeChecked ==
    [][(lastOp'.name = "initialise" /\ lastOp'.flags[2] /\ lastOp'.args[1] # None)
       => IF ShapeMatches(lastOp'.args[1], self.nDimensions)
          THEN /\ self'.raised # "Exception"
               /\ self'.initial_position = lastOp'.args[1]
               /\ self'._currentPosition = lastOp'.args[1]
          ELSE self'.raised = "Exception"]_vars

C11_Witness ==
    /\ lastOp.name = "initialise" /\ lastOp.flags[2]
    /\ lastOp.args = <<Num(1)>> /\ self.nDimensions = Num(2)
    /\ self.raised = "Exception"

\* C16 as stated: simulate refreshes before its loop so that the current
\* snapshot equals the live quantities with the energies recomputed from
\* the live position and velocity; when simulate(steps = 0) returns, the
\* snapshot is that refreshed one and the entry it appended has the
\* potential energy of its own position.
C16_RefreshBeforeLoop ==
    (Returned("simulate") /\ lastOp.steps = 0)
    => (/\ self._currentState = LiveState(self)
        /\ self._currentTotPot = calculate_total_potential_energy(self)
        /\ Last(self._trajectory).total_potential_energy =
              ene(self._potential, Last(self._trajectory).position))

\* the number of entries of the log `q` that are calls of `call`
RECURSIVE Calls(_, _)
Calls(q, call) ==
    IF q = <<>> THEN 0 ELSE (IF Head(q)[1] = call THEN 1 ELSE 0) + Calls(Tail(q), call)

\* the conditions apply_coupled was called on, in the order of the calls
RECURSIVE Applied(_)
Applied(q) ==
    IF q = <<>> THEN <<>>
    ELSE (IF Head(q)[1] = "apply_coupled" THEN <<Head(q)[2]>> ELSE <<>>) \o Applied(Tail(q))

\* the trajectory entries of before the loop of the simulate call of this step
BeforeLoop == IF lastOp'.flags[1] THEN <<self._currentState>> ELSE self._trajectory

\* C13: when the sampler's step or a condition raises at step index i
\* (after i completed steps), the error leaves simulate and the trajectory holds the entries of before the
\* loop, unchanged, plus one entry for every completed index j < i with
\* j mod stride = 0: nothing is removed and no final entry is appended.
C13_AbortKeepsCompleted ==
    [][(lastOp'.name = "simulate")
       => /\ (Calls(self'.log, "propagate") > Calls(self'.log, "update_current_state"))
             => self'.raised \in {"SamplerError", "ConditionError"}
          /\ (self'.raised \in {"SamplerError", "ConditionError"})
             => LET i == self'.step.v[1]
                IN /\ Calls(self'.log, "propagate") = i + 1
                   /\ Calls(self'.log, "update_current_state") = i
                   /\ Len(self'._trajectory) = Len(BeforeLoop) + CeilDiv(i, lastOp'.stride)
                   /\ SubSeq(self'._trajectory, 1, Len(BeforeLoop)) = BeforeLoop
                   /\ Calls(self'.log, "append") = CeilDiv(i, lastOp'.stride)]_vars

C13_Witness ==
    /\ lastOp.name = "simulate" /\ self.raised = "ConditionError"
    /\ lastOp.steps = 3 /\ lastOp.stride = 2 /\ self.step = Num(2)
    /\ ~lastOp.flags[1] /\ lastOp.lenBefore = 2 /\ Len(self._trajectory) = 3

\* the calls of the loop of simulate from step index i on, and the final
\* append, for the condition list `list`
RECURSIVE LoopCalls(_, _, _, _)
LoopCalls(i, steps, stride, list) ==
    IF i >= steps THEN << <<"append", "">> >>
    ELSE << <<"propagate", "">> >>
         \o [j \in 1 .. Len(list) |-> <<"apply_coupled", list[j]>>]
         \o << <<"update_system_properties", "">>, <<"update_current_state", "">> >>
         \o (IF i % stride = 0 /\ i # steps - 1 THEN << <<"append", "">> >> ELSE <<>>)
         \o LoopCalls(i + 1, steps, stride, list)

\* C17: every step index of simulate runs propagate, apply_conditions, the
\* recompute of the energies, the rebuild of the snapshot and the
\* conditional append in this order, one step after the other; a snapshot
\* appended for a step is built after the step's conditions were applied
\* (under the restraint it holds the folded position 0 and its energy).
C17_PhaseOrder ==
    (lastOp.name = "simulate")
    => LET expected == LoopCalls(0, lastOp.steps, lastOp.stride, lists[self._conditions])
       IN /\ Len(self.log) <= Len(expected)
          /\ self.log = SubSeq(expected, 1, Len(self.log))
          /\ self.raised = "none" => self.log = expected
          /\ (lastOp.steps >= 1 /\ Count(lists[self._conditions], "restraint") > 0)
             => \A j \in Base + 1 .. Len(self._trajectory) :
                   /\ self._trajectory[j].position = Num(0)
                   /\ self._trajectory[j].total_potential_energy = Num(0)

C17_Witness ==
    /\ Returned("simulate") /\ lastOp.steps = 3 /\ lastOp.stride = 2
    /\ lists[self._conditions] = <<"wall", "restraint">>
    /\ Len(self._trajectory) = Base + 2

\* the sequence q repeated n times
RECURSIVE Repeat(_, _)
Repeat(q, n) == IF n = 0 THEN <<>> ELSE q \o Repeat(q, n - 1)

\* C18 as stated: in every step apply_coupled is called on each condition of
\* the condition list exactly once, in the list's insertion order, after
\* propagate; over simulate(steps = N) each condition is applied N times.
C18_EachConditionOncePerStep ==
    Returned("simulate")
    => (/\ Applied(self.log) = Repeat(lists[self._conditions], lastOp.steps)
        /\ \A c \in StepConditions :
              Count(lists[self._conditions], c) > 0
              => Count(Applied(self.log), c) = lastOp.steps)

\* C21 as stated: when clear_trajectory returns, the trajectory has exactly
\* one entry, and that entry is the current snapshot.
C21_ClearKeepsCurrent ==
    Returned("clear_trajectory")
    => self._trajectory = <<self._currentState>>

\* C22 as stated: after set_position(p) the live position is p, after
\* set_velocities(v) the live velocity is v, after set_temperature(t) the
\* configured and the live temperature are t; in each case the live energies
\* are the ones recomputed from the new value and the current snapshot is
\* rebuilt from the live quantities.
C22_SetterMethods ==
    /\ Returned("set_position") => self._currentPosition = lastOp.args[1]
    /\ Returned("set_velocities") => self._currentVelocities = lastOp.args[1]
    /\ Returned("set_temperature")
       => (self._temperature = lastOp.args[1] /\ self._currentTemperature = Num(lastOp.args[1]))
    /\ (\/ Returned("set_position") \/ Returned("set_velocities") \/ Returned("set_temperature"))
       => (/\ self._currentTotPot = calculate_total_potential_energy(self)
           /\ self._currentTotKin = calculate_total_kinetic_energy(self)
           /\ self._currentState = LiveState(self))

\* C23 as stated: from any reachable state, append_state(p, v, f) followed
\* by revert_step leaves the trajectory identical to the trajectory before
\* the append_state call (the trajectory append_state returned without its
\* appended entry), and the live position, velocity and force equal those of
\* that trajectory's last entry.
C23_RollbackUndoesAppend ==
    [][(Returned("append_state") /\ lastOp'.name = "revert_step")
       => LET before == SubSeq(self._trajectory, 1, lastOp.lenBefore)
          IN /\ Len(self._trajectory) = lastOp.lenBefore + 1
             /\ self'._trajectory = before
             /\ self'._currentPosition = Last(before).position
             /\ self'._currentVelocities = Last(before).velocity
             /\ self'._currentForce = Last(before).dhdpos]_vars

\* C24 as stated: a call of initialise that fails with the shape-mismatch
\* error leaves the trajectory (also when withdraw_Traj was requested), the
\* live position, the initial-position marker, the step counter and the
\* current snapshot as they were before the call.
C24_FailedInitialiseKeeps ==
    [][(lastOp'.name = "initialise" /\ self'.raised = "Exception")
       => (/\ self'._trajectory = self._trajectory
           /\ self'._currentPosition = self._currentPosition
           /\ self'.initial_position = self.initial_position
           /\ self'.step = self.step
           /\ self'._currentState = self._currentState)]_vars

====
